---- MODULE Spec2Model ----
(***************************************************************************)
(* Model of k0marov/tonconnect: the Connector (connector/connector.go),    *)
(* the Storage contract, and the Session's bridge event stream.            *)
(*                                                                         *)
(* Four specifications share the variables:                                *)
(*   Spec / FairSpec  one call of Connector.Connect (the connect race)     *)
(*   SpecOps          GetConnector followed by single-peer operations      *)
(*   SpecStream       one call of connectToBridge and its event handler    *)
(*   SpecSession      SpecStream with a sendMessage call beside the stream *)
(***************************************************************************)
EXTENDS Integers, Sequences, FiniteSets, TLC

\* ------------------------------------------------------------------ bounds
MaxWallets == 3
MaxRequestID == 4
MaxEvents == 3

\* ------------------------------------------------------------- Session
NoKey == 0
WalletKey(w) == 9 + w
WalletBridge(w) == 20 + w
NoBridge == 0
GenKeys == {1, 2}
PrivOf(pub) == 100 + pub
NoSession == [ID |-> NoKey, PrivateKey |-> NoKey, ClientID |-> NoKey,
              BridgeURL |-> NoBridge, LastEventID |-> 0, LastRequestID |-> 0]

\* type Session struct
Session(id, peer, bridge, ev, rq) ==
    [ID |-> id, PrivateKey |-> PrivOf(id), ClientID |-> peer,
     BridgeURL |-> bridge, LastEventID |-> ev, LastRequestID |-> rq]

NewSession_ZeroCursor(id) == Session(id, NoKey, NoBridge, 0, 1)

\* NewSession, the value built when box.GenerateKey returned the pair of id
NewSession(id) == Session(id, NoKey, NoBridge, 1, 1)

\* Session.Connect on success: the handshake binds the peer and the bridge URL of
\* the wallet that answered. Two attempts that succeed on the same Session race
\* on these fields, so the later one either finds its write lost or overwrites.
SessionConnectOk(s, w) ==
    LET bound == [s EXCEPT !.ClientID = WalletKey(w), !.BridgeURL = WalletBridge(w)]
    IN  IF s.ClientID = NoKey THEN {bound} ELSE {bound, s}

VARIABLES
    session,      \* c.session, the Session shared through the pointer
    stored,       \* what storage holds (NoSession: nothing)
    log,          \* calls this Connector call has made, in order
    ret,          \* what the call returned
    N, ctx, spawned, wpc, wres, wg, cpc, respClosed, errClosed, errBuf,
    mpc, mresp, nilRecv,
    opc, op, connector, getRes,
    sub, subErr, hpc, pending, handled, last, published, consumer,
    accepted,     \* the messages the handler has decrypted, in the order of their events
    cause,        \* why connectToBridge returned
    req           \* the subscription request connectToBridge built

sharedVars == <<session, stored, log, ret>>
raceRest == <<N, spawned, wpc, wres, wg, cpc, respClosed, errClosed, errBuf,
              mpc, mresp, nilRecv>>
raceVars == <<N, ctx, spawned, wpc, wres, wg, cpc, respClosed, errClosed, errBuf,
              mpc, mresp, nilRecv>>
opsVars == <<opc, op, connector, getRes>>
streamVars == <<sub, subErr, hpc, pending, handled, last, published, consumer,
                accepted, cause, req>>
vars == <<sharedVars, raceVars, opsVars, streamVars>>

NoRet == [resp |-> 0, err |-> "pending"]
Wallets == 1..N
NoMsg == [id |-> 0, from |-> NoKey]
NoEvent == [id |-> <<>>, val |-> 0, cursor |-> 0, from |-> NoKey, verdict |-> "none",
            opened |-> FALSE]
NoReq == [client_id |-> NoKey, has_last |-> FALSE, last_event_id |-> <<>>]
NotReturned == <<"pending">>

\* the variables of the other two specifications, at rest
OpsIdle ==
    /\ opc = "off" /\ op = "none" /\ connector = FALSE /\ getRes = "none"
StreamIdle ==
    /\ sub = "off" /\ subErr = NotReturned /\ hpc = "idle" /\ pending = NoMsg
    /\ handled = 0 /\ last = NoEvent /\ published = <<>> /\ consumer = "receiving"
    /\ accepted = <<>> /\ cause = "none" /\ req = NoReq
RaceIdle ==
    /\ N = 0 /\ ctx = "live" /\ spawned = 0
    /\ wpc = [w \in 1..MaxWallets |-> "unborn"]
    /\ wres = [w \in 1..MaxWallets |-> "none"]
    /\ wg = 0 /\ cpc = "unborn" /\ respClosed = FALSE /\ errClosed = FALSE
    /\ errBuf = <<>> /\ mpc = "off" /\ mresp = 0 /\ nilRecv = FALSE

\* ------------------------------------------------- Connector.Connect
\* errCh := make(chan error, len(wallets))
ErrCap == N

Init ==
    /\ N \in 0..MaxWallets
    /\ session \in {NewSession(1), Session(1, WalletKey(1), WalletBridge(1), 1, 2)}
    /\ stored = session
    /\ log = <<>>
    /\ ret = NoRet
    /\ ctx = "live"
    /\ spawned = 0
    /\ wpc = [w \in 1..MaxWallets |-> "unborn"]
    /\ wres = [w \in 1..MaxWallets |-> "none"]
    /\ wg = 0
    /\ cpc = "unborn"
    /\ respClosed = FALSE
    /\ errClosed = FALSE
    /\ errBuf = <<>>
    /\ mpc = "spawn"
    /\ mresp = 0
    /\ nilRecv = FALSE
    /\ OpsIdle
    /\ StreamIdle

\* the caller cancels ctx, or its deadline expires
CancelCtx ==
    /\ ctx = "live"
    /\ ctx' = "cancelled"
    /\ UNCHANGED <<opsVars, streamVars, sharedVars, N, spawned, wpc, wres, wg, cpc, respClosed, errClosed,
                   errBuf, mpc, mresp, nilRecv>>

\* for _, wallet := range wallets { wg.Add(1); go func(w) {...}(wallet) }
MainSpawn ==
    /\ mpc = "spawn"
    /\ spawned < N
    /\ spawned' = spawned + 1
    /\ wg' = wg + 1
    /\ wpc' = [wpc EXCEPT ![spawned + 1] = "call"]
    /\ UNCHANGED <<opsVars, streamVars, sharedVars, N, ctx, wres, cpc, respClosed, errClosed, errBuf,
                   mpc, mresp, nilRecv>>

\* go func() { wg.Wait(); close(respCh); close(errCh) }(), then the for loop
MainSpawnCloser ==
    /\ mpc = "spawn"
    /\ spawned = N
    /\ cpc' = "wait"
    /\ mpc' = "select"
    /\ UNCHANGED <<opsVars, streamVars, sharedVars, N, ctx, spawned, wpc, wres, wg, respClosed, errClosed,
                   errBuf, mresp, nilRecv>>

\* resp, err := c.session.Connect(ctx, w): the attempt ends with a response, with
\* an error of its own, or (once ctx is done) with the context's error
WorkerConnect(w) ==
    /\ wpc[w] = "call"
    /\ \E out \in {"ok", "err"} \cup (IF ctx = "cancelled" THEN {"ctxerr"} ELSE {}) :
        /\ wres' = [wres EXCEPT ![w] = out]
        /\ IF out = "ok"
              THEN /\ session' \in SessionConnectOk(session, w)
                   /\ wpc' = [wpc EXCEPT ![w] = "sendresp"]
              ELSE /\ session' = session
                   /\ wpc' = [wpc EXCEPT ![w] = "senderr"]
    /\ UNCHANGED <<opsVars, streamVars, stored, log, ret, N, ctx, spawned, wg, cpc, respClosed, errClosed,
                   errBuf, mpc, mresp, nilRecv>>

\* errCh <- err; then the deferred wg.Done(). A receiver parked in the select
\* takes the value directly; otherwise the value needs a free buffer slot.
WorkerSendErr(w) ==
    /\ wpc[w] = "senderr"
    /\ IF errClosed
          THEN /\ wpc' = [wpc EXCEPT ![w] = "panic"]
               /\ UNCHANGED <<errBuf, mpc, wg>>
          ELSE /\ mpc = "parked" \/ Len(errBuf) < ErrCap
               /\ IF mpc = "parked"
                     THEN mpc' = "select" /\ errBuf' = errBuf
                     ELSE mpc' = mpc /\ errBuf' = Append(errBuf, wres[w])
               /\ wpc' = [wpc EXCEPT ![w] = "done"]
               /\ wg' = wg - 1
    /\ UNCHANGED <<opsVars, streamVars, sharedVars, N, ctx, spawned, wres, cpc, respClosed, errClosed,
                   mresp, nilRecv>>

\* a worker whose send found no receiver persisting the Session itself
WorkerSendResp_LoserPersists(w) ==
    /\ wpc[w] = "sendresp"
    /\ IF respClosed
          THEN /\ wpc' = [wpc EXCEPT ![w] = "panic"]
               /\ UNCHANGED <<mpc, mresp, wg, log, stored>>
          ELSE /\ IF mpc = "parked"
                     THEN /\ mpc' = "gotresp" /\ mresp' = w
                          /\ UNCHANGED <<log, stored>>
                     ELSE /\ mpc' = mpc /\ mresp' = mresp
                          /\ log' = Append(log, [ev |-> "set", ok |-> TRUE,
                                                 sess |-> session])
                          /\ stored' = session
               /\ wpc' = [wpc EXCEPT ![w] = "done"]
               /\ wg' = wg - 1
    /\ UNCHANGED <<opsVars, streamVars, session, ret, N, ctx, spawned, wres, cpc,
                   respClosed, errClosed, errBuf, nilRecv>>

\* select { case respCh <- resp: return; default: }; then the deferred wg.Done().
\* respCh is unbuffered: the send case is ready only while the receiver is parked.
WorkerSendResp(w) ==
    /\ wpc[w] = "sendresp"
    /\ IF respClosed
          THEN /\ wpc' = [wpc EXCEPT ![w] = "panic"]
               /\ UNCHANGED <<mpc, mresp, wg>>
          ELSE /\ IF mpc = "parked"
                     THEN mpc' = "gotresp" /\ mresp' = w
                     ELSE mpc' = mpc /\ mresp' = mresp
               /\ wpc' = [wpc EXCEPT ![w] = "done"]
               /\ wg' = wg - 1
    /\ UNCHANGED <<opsVars, streamVars, sharedVars, N, ctx, spawned, wres, cpc, respClosed, errClosed,
                   errBuf, nilRecv>>

\* the closer going on to close the channels without waiting for the workers
CloserWait_NoWait ==
    /\ cpc = "wait"
    /\ cpc' = "closeResp"
    /\ UNCHANGED <<opsVars, streamVars, sharedVars, N, ctx, spawned, wpc, wres, wg,
                   respClosed, errClosed, errBuf, mpc, mresp, nilRecv>>

\* wg.Wait()
CloserWait ==
    /\ cpc = "wait"
    /\ wg = 0
    /\ cpc' = "closeResp"
    /\ UNCHANGED <<opsVars, streamVars, sharedVars, N, ctx, spawned, wpc, wres, wg, respClosed, errClosed,
                   errBuf, mpc, mresp, nilRecv>>

\* close(respCh): a parked receiver wakes with the zero value, resp == nil, and
\* goes round the loop
CloserCloseResp ==
    /\ cpc = "closeResp"
    /\ respClosed' = TRUE
    /\ cpc' = "closeErr"
    /\ IF mpc = "parked"
          THEN mpc' = "select" /\ nilRecv' = TRUE
          ELSE mpc' = mpc /\ nilRecv' = nilRecv
    /\ UNCHANGED <<opsVars, streamVars, sharedVars, N, ctx, spawned, wpc, wres, wg, errClosed, errBuf, mresp>>

\* the closer with close(errCh) left out
CloserCloseErr_NoClose ==
    /\ cpc = "closeErr"
    /\ cpc' = "done"
    /\ UNCHANGED <<opsVars, streamVars, sharedVars, N, ctx, spawned, wpc, wres, wg,
                   respClosed, errClosed, errBuf, mpc, mresp, nilRecv>>

\* close(errCh): a parked receiver wakes with ok == false and returns
CloserCloseErr ==
    /\ cpc = "closeErr"
    /\ errClosed' = TRUE
    /\ cpc' = "done"
    /\ IF mpc = "parked"
          THEN mpc' = "done" /\ ret' = [resp |-> 0, err |-> "allfailed"]
          ELSE mpc' = mpc /\ ret' = ret
    /\ UNCHANGED <<opsVars, streamVars, session, stored, log, N, ctx, spawned, wpc, wres, wg, respClosed,
                   errBuf, mresp, nilRecv>>

\* case resp := <-respCh, ready without parking only once respCh is closed:
\* resp == nil, next iteration
MainSelectResp ==
    /\ mpc = "select"
    /\ respClosed
    /\ nilRecv' = TRUE
    /\ UNCHANGED <<opsVars, streamVars, sharedVars, N, ctx, spawned, wpc, wres, wg, cpc, respClosed,
                   errClosed, errBuf, mpc, mresp>>

\* case _, ok := <-errCh: a buffered error is dropped (ok), a closed and drained
\* channel (!ok) ends the call with the aggregate error
MainSelectErr ==
    /\ mpc = "select"
    /\ errBuf # <<>> \/ errClosed
    /\ IF errBuf # <<>>
          THEN /\ errBuf' = Tail(errBuf)
               /\ UNCHANGED <<mpc, ret>>
          ELSE /\ mpc' = "done"
               /\ ret' = [resp |-> 0, err |-> "allfailed"]
               /\ UNCHANGED errBuf
    /\ UNCHANGED <<opsVars, streamVars, session, stored, log, N, ctx, spawned, wpc, wres, wg, cpc,
                   respClosed, errClosed, mresp, nilRecv>>

\* no case of the select is ready: the goroutine parks on both channels
MainPark ==
    /\ mpc = "select"
    /\ ~respClosed /\ ~errClosed /\ errBuf = <<>>
    /\ mpc' = "parked"
    /\ UNCHANGED <<opsVars, streamVars, sharedVars, N, ctx, spawned, wpc, wres, wg, cpc, respClosed,
                   errClosed, errBuf, mresp, nilRecv>>

\* the receiving loop with the error of storage.Set ignored
MainSet_IgnoreSetErr ==
    /\ mpc = "gotresp"
    /\ \E ok \in BOOLEAN :
        /\ log' = Append(log, [ev |-> "set", ok |-> ok, sess |-> session])
        /\ stored' = IF ok THEN session ELSE stored
        /\ ret' = [resp |-> mresp, err |-> "nil"]
    /\ mpc' = "done"
    /\ UNCHANGED <<opsVars, streamVars, session, N, ctx, spawned, wpc, wres, wg, cpc,
                   respClosed, errClosed, errBuf, mresp, nilRecv>>

\* if resp != nil { if err := c.storage.Set(c.session); err != nil {return nil, ...}
\*                  return resp, nil }
MainSet ==
    /\ mpc = "gotresp"
    /\ \E ok \in BOOLEAN :
        /\ log' = Append(log, [ev |-> "set", ok |-> ok, sess |-> session])
        /\ stored' = IF ok THEN session ELSE stored
        /\ ret' = IF ok THEN [resp |-> mresp, err |-> "nil"]
                        ELSE [resp |-> 0, err |-> "seterr"]
    /\ mpc' = "done"
    /\ UNCHANGED <<opsVars, streamVars, session, N, ctx, spawned, wpc, wres, wg, cpc, respClosed,
                   errClosed, errBuf, mresp, nilRecv>>

Worker(w) == WorkerConnect(w) \/ WorkerSendErr(w) \/ WorkerSendResp(w)
Closer == CloserWait \/ CloserCloseResp \/ CloserCloseErr

Next ==
    \/ CancelCtx
    \/ MainSpawn
    \/ MainSpawnCloser
    \/ MainSelectResp
    \/ MainSelectErr
    \/ MainPark
    \/ MainSet
    \/ \E w \in Wallets : WorkerConnect(w)
    \/ \E w \in Wallets : WorkerSendErr(w)
    \/ \E w \in Wallets : WorkerSendResp(w)
    \/ CloserWait
    \/ CloserCloseResp
    \/ CloserCloseErr

Spec == Init /\ [][Next]_vars

\* Every goroutine that can run is scheduled, and a select whose errCh case stays
\* ready takes it eventually (Go picks among the ready cases at random).
FairSpec ==
    /\ Spec
    /\ \A w \in 1..MaxWallets : WF_vars(Worker(w))
    /\ WF_vars(Closer)
    /\ WF_vars(MainSpawn \/ MainSpawnCloser \/ MainPark \/ MainSet)
    /\ WF_vars(MainSelectErr)

\* ------------------------------------- GetConnector and the single-peer calls
SingleOps == {"SendTransaction", "SignData", "Disconnect"}
SetEntry(ok, s) == [ev |-> "set", ok |-> ok, sess |-> s]
SessionEntry(ok, s) == [ev |-> "session", ok |-> ok, sess |-> s]

\* Storage.Get: the session it holds, or an error: nothing is held, or the
\* backend failed
StorageGet(st) == IF st = NoSession THEN {"notfound", "ioerr"} ELSE {"found", "ioerr"}

\* Storage.Set: what storage holds afterwards
StorageSet(st, s, ok) == IF ok THEN s ELSE st

\* c.session.SendTransaction / SignData / Disconnect: a Session without key pair,
\* peer or bridge URL fails before any exchange; otherwise the exchange takes the
\* next request id and succeeds or fails.
SessionOp(s) ==
    IF s.ID = NoKey \/ s.ClientID = NoKey \/ s.BridgeURL = NoBridge
       THEN {[ok |-> FALSE, sess |-> s]}
       ELSE {[ok |-> b, sess |-> [s EXCEPT !.LastRequestID = @ + 1]] : b \in BOOLEAN}

InitOps ==
    /\ stored \in {NoSession, NewSession(1),
                   Session(1, WalletKey(1), WalletBridge(1), 1, 1),
                   Session(2, WalletKey(2), WalletBridge(2), 2, 2),
                   Session(1, WalletKey(2), WalletBridge(1), 5, 3)}
    /\ session = NoSession
    /\ log = <<>>
    /\ ret = NoRet
    /\ opc = "start" /\ op = "none" /\ connector = FALSE /\ getRes = "none"
    /\ RaceIdle
    /\ StreamIdle

\* func GetConnector(storage Storage): storage.Get, and on any error NewSession
\* (k = NoKey: box.GenerateKey failed) and storage.Set
GetConnector ==
    /\ opc = "start"
    /\ op' = "GetConnector"
    /\ \E g \in StorageGet(stored) :
        /\ getRes' = g
        /\ IF g = "found"
              THEN /\ session' = stored
                   /\ log' = <<>>
                   /\ stored' = stored
                   /\ connector' = TRUE
                   /\ ret' = [resp |-> 1, err |-> "nil"]
                   /\ opc' = "idle"
              ELSE \E k \in GenKeys \cup {NoKey} :
                     IF k = NoKey
                        THEN /\ session' = NoSession
                             /\ log' = <<>>
                             /\ stored' = stored
                             /\ connector' = FALSE
                             /\ ret' = [resp |-> 0, err |-> "newsession"]
                             /\ opc' = "failed"
                        ELSE \E ok \in BOOLEAN :
                             /\ log' = <<SetEntry(ok, NewSession(k))>>
                             /\ stored' = StorageSet(stored, NewSession(k), ok)
                             /\ session' = IF ok THEN NewSession(k) ELSE NoSession
                             /\ connector' = ok
                             /\ ret' = IF ok THEN [resp |-> 1, err |-> "nil"]
                                             ELSE [resp |-> 0, err |-> "seterr"]
                             /\ opc' = IF ok THEN "idle" ELSE "failed"
    /\ UNCHANGED <<raceVars, streamVars>>

\* a single-peer call with storage.Set made whatever the session call returned
SingleOp_AlwaysPersist(o, hasResult) ==
    /\ opc = "idle"
    /\ session.LastRequestID < MaxRequestID
    /\ op' = o
    /\ \E r \in SessionOp(session), ok \in BOOLEAN :
        /\ session' = r.sess
        /\ log' = <<SessionEntry(r.ok, r.sess), SetEntry(ok, r.sess)>>
        /\ stored' = StorageSet(stored, r.sess, ok)
        /\ ret' = IF ~r.ok THEN [resp |-> 0, err |-> "sesserr"]
                  ELSE IF ok THEN [resp |-> IF hasResult THEN 1 ELSE 0, err |-> "nil"]
                  ELSE [resp |-> 0, err |-> "seterr"]
    /\ UNCHANGED <<opc, connector, getRes, raceVars, streamVars>>

\* resp, err := c.session.<op>(...); if err != nil { return nil, err }
\* if err := c.storage.Set(c.session); err != nil { return nil, fmt.Errorf(...) }
\* return resp, nil
SingleOp(o, hasResult) ==
    /\ opc = "idle"
    /\ session.LastRequestID < MaxRequestID
    /\ op' = o
    /\ \E r \in SessionOp(session) :
        /\ session' = r.sess
        /\ IF ~r.ok
              THEN /\ log' = <<SessionEntry(FALSE, r.sess)>>
                   /\ stored' = stored
                   /\ ret' = [resp |-> 0, err |-> "sesserr"]
              ELSE \E ok \in BOOLEAN :
                   /\ log' = <<SessionEntry(TRUE, r.sess), SetEntry(ok, r.sess)>>
                   /\ stored' = StorageSet(stored, r.sess, ok)
                   /\ ret' = IF ok THEN [resp |-> IF hasResult THEN 1 ELSE 0, err |-> "nil"]
                                   ELSE [resp |-> 0, err |-> "seterr"]
    /\ UNCHANGED <<opc, connector, getRes, raceVars, streamVars>>

SendTransaction == SingleOp("SendTransaction", TRUE)
SignData == SingleOp("SignData", TRUE)
Disconnect == SingleOp("Disconnect", FALSE)

NextOps ==
    \/ GetConnector
    \/ SendTransaction
    \/ SignData
    \/ Disconnect

SpecOps == InitOps /\ [][NextOps]_vars

\* --------------------------------- connectToBridge: the "message" event handler
\* strconv.ParseUint(s, 10, 64): a non-empty string of decimal digits (no sign, no
\* space); the ids drawn below stay far under 2^64, so the range error is left out
DigitOf(c) ==
    CASE c = "0" -> 0 [] c = "1" -> 1 [] c = "2" -> 2 [] c = "3" -> 3 [] c = "4" -> 4
      [] c = "5" -> 5 [] c = "6" -> 6 [] c = "7" -> 7 [] c = "8" -> 8 [] c = "9" -> 9
      [] OTHER -> -1

RECURSIVE DecimalValue(_)
DecimalValue(s) ==
    IF s = <<>> THEN 0 ELSE 10 * DecimalValue(SubSeq(s, 1, Len(s) - 1)) + DigitOf(s[Len(s)])

ParseUint(s) ==
    IF s # <<>> /\ \A i \in 1..Len(s) : DigitOf(s[i]) >= 0
       THEN [ok |-> TRUE, val |-> DecimalValue(s)]
       ELSE [ok |-> FALSE, val |-> 0]

\* nacl.Load(from): the key a hex string of the key's length spells, in either
\* case of the letters; keys are one byte wide here (two hex characters)
HexOf(c) ==
    CASE c = "a" -> 10 [] c = "A" -> 10 [] c = "b" -> 11 [] c = "B" -> 11
      [] OTHER -> DigitOf(c)

Load(from) ==
    IF Len(from) = 2 /\ \A i \in 1..2 : HexOf(from[i]) >= 0
       THEN [ok |-> TRUE, key |-> 16 * HexOf(from[1]) + HexOf(from[2])]
       ELSE [ok |-> FALSE, key |-> NoKey]

\* a box: who sealed it (the public half of the sealing key), the public key it
\* was sealed to, and whether its plaintext decodes into a walletMessage
Corrupt == [sealer |-> NoKey, rcpt |-> NoKey, wf |-> FALSE]
Sealed(from, to, wf) == [sealer |-> from, rcpt |-> to, wf |-> wf]

\* box.EasyOpen(msg, clientID, s.PrivateKey)
EasyOpen(msg, clientID, priv) ==
    msg # Corrupt /\ msg.sealer = clientID /\ PrivOf(msg.rcpt) = priv

\* Session.decrypt with the check of the bound peer left out
decrypt_NoPeerCheck(s, from, msg) ==
    LET l == Load(from) IN
    IF ~l.ok THEN [clientID |-> NoKey, err |-> "load", opened |-> FALSE]
    ELSE IF ~EasyOpen(msg, l.key, s.PrivateKey)
         THEN [clientID |-> l.key, err |-> "open", opened |-> TRUE]
    ELSE IF ~msg.wf
         THEN [clientID |-> l.key, err |-> "decode", opened |-> TRUE]
    ELSE [clientID |-> l.key, err |-> "nil", opened |-> TRUE]

\* func (s *Session) decrypt(from string, msg []byte, v any) (nacl.Key, error);
\* opened: box.EasyOpen was called
decrypt(s, from, msg) ==
    LET l == Load(from) IN
    IF ~l.ok THEN [clientID |-> NoKey, err |-> "load", opened |-> FALSE]
    ELSE IF s.ClientID # NoKey /\ s.ClientID # l.key
         THEN [clientID |-> l.key, err |-> "mismatch", opened |-> FALSE]
    ELSE IF ~EasyOpen(msg, l.key, s.PrivateKey)
         THEN [clientID |-> l.key, err |-> "open", opened |-> TRUE]
    ELSE IF ~msg.wf
         THEN [clientID |-> l.key, err |-> "decode", opened |-> TRUE]
    ELSE [clientID |-> l.key, err |-> "nil", opened |-> TRUE]

\* the events a relay can deliver: the frame's id, and a body that is no JSON
\* envelope at all or carries "from" and "message"
EventIds == {<<"5">>, <<"7">>, <<"8">>, <<"0", "7">>, <<"x">>, <<>>}
FromStrings == {<<"0", "a">>, <<"0", "A">>, <<"0", "b">>, <<"0", "g">>, <<"a">>}
Ciphertexts ==
    {Corrupt, Sealed(10, 1, TRUE), Sealed(11, 1, TRUE), Sealed(10, 1, FALSE),
     Sealed(10, 2, TRUE)}
NotJSON == [json |-> FALSE, from |-> <<>>, message |-> Corrupt]
Bodies == {NotJSON} \cup [json : {TRUE}, from : FromStrings, message : Ciphertexts]
Events == [id : EventIds, body : Bodies]

\* the Sessions a stream is opened on: fresh from NewSession, bound to a wallet
\* (with the cursor unset, or advanced by an earlier stream), with a peer but no
\* bridge URL, and without a key pair
StreamSessions ==
    {NewSession(1),
     Session(1, 10, WalletBridge(1), 0, 1),
     Session(1, 11, WalletBridge(1), 7, 2),
     Session(1, 10, NoBridge, 1, 1),
     [NoSession EXCEPT !.ClientID = 10, !.BridgeURL = WalletBridge(1),
                       !.LastEventID = 1, !.LastRequestID = 1]}

InitStream ==
    /\ session \in StreamSessions
    /\ stored = session
    /\ log = <<>>
    /\ ret = NoRet
    /\ sub = "calling" /\ subErr = NotReturned /\ hpc = "idle" /\ pending = NoMsg
    /\ handled = 0 /\ last = NoEvent /\ published = <<>> /\ consumer = "receiving"
    /\ accepted = <<>> /\ cause = "none" /\ req = NoReq
    /\ RaceIdle
    /\ OpsIdle

\* the verdict on the body of an event: json.Unmarshal of e.Data, then s.decrypt
Verdict(s, body) ==
    IF ~body.json THEN [clientID |-> NoKey, err |-> "json", opened |-> FALSE]
    ELSE decrypt(s, body.from, body.message)

\* the handler with a failed decrypt ending the subscription
HandleEvent_DropEndsStream(e) ==
    /\ sub = "streaming" /\ hpc = "idle"
    /\ handled < MaxEvents
    /\ handled' = handled + 1
    /\ LET id == ParseUint(e.id)
           s1 == [session EXCEPT !.LastEventID = id.val]
           v  == Verdict(s1, e.body)
       IN  IF ~id.ok
              THEN /\ sub' = "panicked"
                   /\ last' = [id |-> e.id, val |-> 0, cursor |-> session.LastEventID,
                               from |-> NoKey, verdict |-> "panic", opened |-> FALSE]
                   /\ UNCHANGED <<session, hpc, pending, accepted>>
              ELSE /\ session' = s1
                   /\ last' = [id |-> e.id, val |-> id.val, cursor |-> s1.LastEventID,
                               from |-> v.clientID, verdict |-> v.err,
                               opened |-> v.opened]
                   /\ IF v.err = "nil"
                         THEN /\ hpc' = "sending"
                              /\ pending' = [id |-> id.val, from |-> v.clientID]
                              /\ accepted' = Append(accepted, pending')
                              /\ sub' = sub
                         ELSE /\ sub' = "returned"
                              /\ UNCHANGED <<hpc, pending, accepted>>
    /\ UNCHANGED <<stored, log, ret, subErr, published, consumer, cause, req,
                   raceVars, opsVars>>

\* the handler storing the cursor only once the body has decrypted
HandleEvent_CursorAfterDecrypt(e) ==
    /\ sub = "streaming" /\ hpc = "idle"
    /\ handled < MaxEvents
    /\ handled' = handled + 1
    /\ LET id == ParseUint(e.id)
           s1 == [session EXCEPT !.LastEventID = id.val]
           v  == Verdict(session, e.body)
       IN  IF ~id.ok
              THEN /\ sub' = "panicked"
                   /\ last' = [id |-> e.id, val |-> 0, cursor |-> session.LastEventID,
                               from |-> NoKey, verdict |-> "panic", opened |-> FALSE]
                   /\ UNCHANGED <<session, hpc, pending, accepted>>
              ELSE /\ session' = IF v.err = "nil" THEN s1 ELSE session
                   /\ last' = [id |-> e.id, val |-> id.val, cursor |-> session.LastEventID,
                               from |-> v.clientID, verdict |-> v.err,
                               opened |-> v.opened]
                   /\ IF v.err = "nil"
                         THEN /\ hpc' = "sending"
                              /\ pending' = [id |-> id.val, from |-> v.clientID]
                              /\ accepted' = Append(accepted, pending')
                         ELSE UNCHANGED <<hpc, pending, accepted>>
                   /\ sub' = sub
    /\ UNCHANGED <<stored, log, ret, subErr, published, consumer, cause, req,
                   raceVars, opsVars>>

\* the handler storing what ParseUint returned before looking at its error
HandleEvent_StoreBeforeCheck(e) ==
    /\ sub = "streaming" /\ hpc = "idle"
    /\ handled < MaxEvents
    /\ handled' = handled + 1
    /\ LET id == ParseUint(e.id)
           s1 == [session EXCEPT !.LastEventID = id.val]
           v  == Verdict(s1, e.body)
       IN  IF ~id.ok
              THEN /\ sub' = "panicked"
                   /\ last' = [id |-> e.id, val |-> 0, cursor |-> session.LastEventID,
                               from |-> NoKey, verdict |-> "panic", opened |-> FALSE]
                   /\ session' = s1
                   /\ UNCHANGED <<hpc, pending, accepted>>
              ELSE /\ session' = s1
                   /\ last' = [id |-> e.id, val |-> id.val, cursor |-> s1.LastEventID,
                               from |-> v.clientID, verdict |-> v.err,
                               opened |-> v.opened]
                   /\ IF v.err = "nil"
                         THEN /\ hpc' = "sending"
                              /\ pending' = [id |-> id.val, from |-> v.clientID]
                              /\ accepted' = Append(accepted, pending')
                         ELSE UNCHANGED <<hpc, pending, accepted>>
                   /\ sub' = sub
    /\ UNCHANGED <<stored, log, ret, subErr, published, consumer, cause, req,
                   raceVars, opsVars>>

\* the handler binding an unbound Session to the sender of the message it accepts
HandleEvent_BindsSender(e) ==
    /\ sub = "streaming" /\ hpc = "idle"
    /\ handled < MaxEvents
    /\ handled' = handled + 1
    /\ LET id == ParseUint(e.id)
           s1 == [session EXCEPT !.LastEventID = id.val]
           v  == Verdict(s1, e.body)
       IN  IF ~id.ok
              THEN /\ sub' = "panicked"
                   /\ last' = [id |-> e.id, val |-> 0, cursor |-> session.LastEventID,
                               from |-> NoKey, verdict |-> "panic", opened |-> FALSE]
                   /\ UNCHANGED <<session, hpc, pending, accepted>>
              ELSE /\ session' = IF v.err = "nil" /\ session.ClientID = NoKey
                                    THEN [s1 EXCEPT !.ClientID = v.clientID]
                                    ELSE s1
                   /\ last' = [id |-> e.id, val |-> id.val, cursor |-> s1.LastEventID,
                               from |-> v.clientID, verdict |-> v.err,
                               opened |-> v.opened]
                   /\ IF v.err = "nil"
                         THEN /\ hpc' = "sending"
                              /\ pending' = [id |-> id.val, from |-> v.clientID]
                              /\ accepted' = Append(accepted, pending')
                         ELSE UNCHANGED <<hpc, pending, accepted>>
                   /\ sub' = sub
    /\ UNCHANGED <<stored, log, ret, subErr, published, consumer, cause, req,
                   raceVars, opsVars>>

\* conn.SubscribeEvent("message", func(e sse.Event) {...}): ParseUint of the id
\* (log.Panicf when it fails), s.LastEventID.Store(id), and only then, on the
\* Session s1 with the cursor stored, json.Unmarshal and s.decrypt; for a decrypted
\* message the send msgs <- bridgeMessage{...}, which blocks the handler until the
\* consumer receives. last.cursor is the cursor at the time the body is examined.
HandleEvent(e) ==
    /\ sub = "streaming" /\ hpc = "idle"
    /\ handled < MaxEvents
    /\ handled' = handled + 1
    /\ LET id == ParseUint(e.id)
           s1 == [session EXCEPT !.LastEventID = id.val]
           v  == Verdict(s1, e.body)
       IN  IF ~id.ok
              THEN /\ sub' = "panicked"
                   /\ last' = [id |-> e.id, val |-> 0, cursor |-> session.LastEventID,
                               from |-> NoKey, verdict |-> "panic", opened |-> FALSE]
                   /\ UNCHANGED <<session, hpc, pending, accepted>>
              ELSE /\ session' = s1
                   /\ last' = [id |-> e.id, val |-> id.val, cursor |-> s1.LastEventID,
                               from |-> v.clientID, verdict |-> v.err,
                               opened |-> v.opened]
                   /\ IF v.err = "nil"
                         THEN /\ hpc' = "sending"
                              /\ pending' = [id |-> id.val, from |-> v.clientID]
                              /\ accepted' = Append(accepted, pending')
                         ELSE UNCHANGED <<hpc, pending, accepted>>
                   /\ sub' = sub
    /\ UNCHANGED <<stored, log, ret, subErr, published, consumer, cause, req,
                   raceVars, opsVars>>

\* a delivery that overtakes the messages delivered before it
Deliver_Overtaking ==
    /\ hpc = "sending"
    /\ consumer = "receiving"
    /\ published' = <<pending>> \o published
    /\ hpc' = "idle"
    /\ pending' = NoMsg
    /\ UNCHANGED <<sharedVars, raceVars, opsVars, sub, subErr, handled, last, consumer,
                   accepted, cause, req>>

\* the consumer of msgs receives: the handler's send completes and it returns
Deliver ==
    /\ hpc = "sending"
    /\ consumer = "receiving"
    /\ published' = Append(published, pending)
    /\ hpc' = "idle"
    /\ pending' = NoMsg
    /\ UNCHANGED <<sharedVars, raceVars, opsVars, sub, subErr, handled, last, consumer,
                   accepted, cause, req>>

\* the consumer of msgs stops receiving (its attempt is over or abandoned)
ConsumerStop ==
    /\ consumer = "receiving"
    /\ consumer' = "stopped"
    /\ UNCHANGED <<sharedVars, raceVars, opsVars, sub, subErr, hpc, pending, handled,
                   last, published, accepted, cause, req>>

\* the caller cancels ctx, or its deadline expires
StreamCancel ==
    /\ ctx = "live"
    /\ ctx' = "cancelled"
    /\ UNCHANGED <<sharedVars, raceRest, opsVars, streamVars>>

\* errors: a chain of wrapped errors, outermost first; nil is the empty chain
ErrorsIs(err, target) == \E i \in 1..Len(err) : err[i] = target
Wrap(msg, err) == <<msg>> \o err

\* what conn.Connect() of the SSE client returns: the context's error, bare or
\* wrapped by the transport; the error of the ResponseValidator (a 503 gives
\* ErrBridgeUnavailable); nil or io.EOF when the relay closes the stream; a
\* transport error
ConnErrors(why) ==
    CASE why = "canceled" -> {<<"context.Canceled">>, <<"transport", "context.Canceled">>}
      [] why = "deadline" -> {<<"context.DeadlineExceeded">>}
      [] why = "unavailable" -> {<<"sse.ConnectionError", "ErrBridgeUnavailable">>}
      [] why = "eof" -> {<<>>, <<"io.EOF">>}
      [] OTHER -> {<<"sse.ConnectionError", "transport">>}

\* strconv.FormatUint(n, 10)
DigitChar(d) ==
    CASE d = 0 -> "0" [] d = 1 -> "1" [] d = 2 -> "2" [] d = 3 -> "3" [] d = 4 -> "4"
      [] d = 5 -> "5" [] d = 6 -> "6" [] d = 7 -> "7" [] d = 8 -> "8" [] OTHER -> "9"

RECURSIVE FormatUint(_)
FormatUint(n) ==
    IF n < 10 THEN <<DigitChar(n)>> ELSE Append(FormatUint(n \div 10), DigitChar(n % 10))

\* the bridgeURL argument: one that url.Parse accepts and one it rejects
BridgeURLArgs == {[text |-> "https://bridge.example", parses |-> TRUE],
                  [text |-> "://bridge", parses |-> FALSE]}

\* the subscription treating the cursor 1 of a new Session as unset
Subscribe_OmitAtOne ==
    /\ sub = "calling"
    /\ \E u \in BridgeURLArgs :
        IF session.ID = NoKey \/ session.PrivateKey = NoKey
           THEN /\ sub' = "returned"
                /\ cause' = "keypair"
                /\ subErr' = <<"tonconnect: session key pair is empty">>
                /\ req' = req
           ELSE IF ~u.parses
           THEN /\ sub' = "returned"
                /\ cause' = "urlparse"
                /\ subErr' = Wrap("tonconnect: failed to parse bridge URL", <<"url.Error">>)
                /\ req' = req
           ELSE /\ sub' = "streaming"
                /\ req' = [client_id |-> session.ID,
                           has_last |-> session.LastEventID > 1,
                           last_event_id |-> IF session.LastEventID > 1
                                                THEN FormatUint(session.LastEventID)
                                                ELSE <<>>]
                /\ UNCHANGED <<cause, subErr>>
    /\ UNCHANGED <<sharedVars, raceVars, opsVars, hpc, pending, handled, last,
                   published, consumer, accepted>>

\* connectToBridge up to conn.Connect(): the key pair check, url.Parse, the query
\* (client_id, and last_event_id when the cursor is above 0)
Subscribe ==
    /\ sub = "calling"
    /\ \E u \in BridgeURLArgs :
        IF session.ID = NoKey \/ session.PrivateKey = NoKey
           THEN /\ sub' = "returned"
                /\ cause' = "keypair"
                /\ subErr' = <<"tonconnect: session key pair is empty">>
                /\ req' = req
           ELSE IF ~u.parses
           THEN /\ sub' = "returned"
                /\ cause' = "urlparse"
                /\ subErr' = Wrap("tonconnect: failed to parse bridge URL", <<"url.Error">>)
                /\ req' = req
           ELSE /\ sub' = "streaming"
                /\ req' = [client_id |-> session.ID,
                           has_last |-> session.LastEventID > 0,
                           last_event_id |-> IF session.LastEventID > 0
                                                THEN FormatUint(session.LastEventID)
                                                ELSE <<>>]
                /\ UNCHANGED <<cause, subErr>>
    /\ UNCHANGED <<sharedVars, raceVars, opsVars, hpc, pending, handled, last,
                   published, consumer, accepted>>

\* connectToBridge returning nil whenever conn.Connect reported no error
StreamEnd_NilOnCleanClose ==
    /\ sub = "streaming" /\ hpc = "idle"
    /\ \E why \in {"unavailable", "eof", "transport"}
                  \cup (IF ctx = "live" THEN {} ELSE {"canceled", "deadline"}) :
        \E err \in ConnErrors(why) :
            /\ cause' = why
            /\ subErr' = IF err = <<>> \/ ErrorsIs(err, "context.Canceled")
                            \/ ErrorsIs(err, "context.DeadlineExceeded")
                            THEN <<>>
                            ELSE Wrap("tonconnect: failed to connect to bridge", err)
    /\ sub' = "returned"
    /\ UNCHANGED <<sharedVars, raceVars, opsVars, hpc, pending, handled, last,
                   published, consumer, accepted, req>>

\* conn.Connect() returns, which it can only do between two handler calls:
\* if err := conn.Connect(); !(errors.Is(err, context.Canceled) ||
\*     errors.Is(err, context.DeadlineExceeded)) { return fmt.Errorf("...: %w", err) }
\* return nil
StreamEnd ==
    /\ sub = "streaming" /\ hpc = "idle"
    /\ \E why \in {"unavailable", "eof", "transport"}
                  \cup (IF ctx = "live" THEN {} ELSE {"canceled", "deadline"}) :
        \E err \in ConnErrors(why) :
            /\ cause' = why
            /\ subErr' = IF ErrorsIs(err, "context.Canceled")
                            \/ ErrorsIs(err, "context.DeadlineExceeded")
                            THEN <<>>
                            ELSE Wrap("tonconnect: failed to connect to bridge", err)
    /\ sub' = "returned"
    /\ UNCHANGED <<sharedVars, raceVars, opsVars, hpc, pending, handled, last,
                   published, consumer, accepted, req>>

NextStream ==
    \/ Subscribe
    \/ \E e \in Events : HandleEvent(e)
    \/ Deliver
    \/ ConsumerStop
    \/ StreamCancel
    \/ StreamEnd

SpecStream == InitStream /\ [][NextStream]_vars

\* ------------------------------------------------------- Session.sendMessage
\* url.Parse(s.BridgeURL): the bridge URLs of the wallets are well-formed
BridgeParses(b) == \E w \in 1..MaxWallets : b = WalletBridge(w)

SendEntry(what, ok) == [ev |-> what, ok |-> ok, sess |-> NoSession]

\* sendMessage without the BridgeURL operand of its guard
SendMessage_NoBridgeCheck ==
    /\ sub # "panicked"
    /\ ret = NoRet
    /\ \E marshals \in BOOLEAN, http \in {"error", "200", "500"} :
        IF session.ID = NoKey \/ session.PrivateKey = NoKey \/ session.ClientID = NoKey
           THEN /\ ret' = [resp |-> 0, err |-> "tonconnect: session not established"]
                /\ log' = log
           ELSE IF ~marshals
           THEN /\ ret' = [resp |-> 0,
                           err |-> "tonconnect: failed to marshal message to encrypt"]
                /\ log' = log
           ELSE /\ log' = log \o <<SendEntry("EasySeal", TRUE), SendEntry("POST", http = "200")>>
                /\ ret' = [resp |-> 0,
                           err |-> IF http = "200" THEN "nil"
                                   ELSE "tonconnect: failed to send message"]
    /\ UNCHANGED <<session, stored, raceVars, opsVars, streamVars>>

\* func (s *Session) sendMessage(ctx, msg, topic, options...) error, one call:
\* the guard on ID, PrivateKey, ClientID and BridgeURL, url.Parse, s.encrypt
\* (json.Marshal, box.EasySeal), the POST to <bridge>/message and its status
SendMessage ==
    /\ sub # "panicked"
    /\ ret = NoRet
    /\ \E marshals \in BOOLEAN, http \in {"error", "200", "500"} :
        IF session.ID = NoKey \/ session.PrivateKey = NoKey \/ session.ClientID = NoKey
              \/ session.BridgeURL = NoBridge
           THEN /\ ret' = [resp |-> 0, err |-> "tonconnect: session not established"]
                /\ log' = log
           ELSE IF ~BridgeParses(session.BridgeURL)
           THEN /\ ret' = [resp |-> 0, err |-> "tonconnect: failed to parse bridge URL"]
                /\ log' = log
           ELSE IF ~marshals
           THEN /\ ret' = [resp |-> 0,
                           err |-> "tonconnect: failed to marshal message to encrypt"]
                /\ log' = log
           ELSE /\ log' = log \o <<SendEntry("EasySeal", TRUE), SendEntry("POST", http = "200")>>
                /\ ret' = [resp |-> 0,
                           err |-> IF http = "200" THEN "nil"
                                   ELSE "tonconnect: failed to send message"]
    /\ UNCHANGED <<session, stored, raceVars, opsVars, streamVars>>

\* a Session in use: its event stream, and a sendMessage at any moment of it
NextSession ==
    \/ NextStream
    \/ SendMessage

SpecSession == InitStream /\ [][NextSession]_vars

\* ------------------------------------------------ claims on Connector.Connect
Returned == mpc = "done"
Succeeded == {w \in Wallets : wres[w] = "ok"}
Failed == {w \in Wallets : wres[w] \in {"err", "ctxerr"}}
ExactlyOneSucceeded == Cardinality(Succeeded) = 1 /\ Succeeded \cup Failed = Wallets
AllFailed == Failed = Wallets
SetCalls == SelectSeq(log, LAMBDA e : e.ev = "set")

\* C1: when exactly one of the N >= 1 attempts succeeds and the others fail,
\* Connect does not return the "all connect attempts failed" error, and a response
\* it returns is the one of the attempt that succeeded.
C1_OneSuccessIsReturned ==
    (Returned /\ ExactlyOneSucceeded) =>
        /\ ret.err # "allfailed"
        /\ ret.err = "nil" => ret.resp \in Succeeded

\* C2: once every attempt (of N >= 0) has ended with an error, Connect eventually
\* returns the aggregate failure error.
C2_AllFailEventuallyAggregate ==
    AllFailed ~> (Returned /\ ret = [resp |-> 0, err |-> "allfailed"])

C2_Witness ==
    /\ N >= 2 /\ AllFailed /\ Returned /\ ret.err = "allfailed"
    /\ errClosed /\ respClosed /\ nilRecv

\* C3: a response returned with a nil error was preceded, in the same call, by a
\* storage.Set of the session that succeeded; a storage.Set that fails makes
\* Connect return no response and the persistence error, although an attempt
\* succeeded and the in-memory session keeps its binding.
C3_PersistedBeforeReturn ==
    /\ (Returned /\ ret.err = "nil") =>
          /\ ret.resp \in Succeeded
          /\ Len(SetCalls) = 1 /\ SetCalls[1].ok
          /\ stored = SetCalls[1].sess
          /\ stored.ClientID # NoKey /\ stored.BridgeURL # NoBridge
    /\ (\E i \in 1..Len(SetCalls) : ~SetCalls[i].ok) =>
          /\ Returned /\ ret = [resp |-> 0, err |-> "seterr"]
          /\ Succeeded # {}
          /\ session.ClientID # NoKey /\ session.BridgeURL # NoBridge

C3_Witness ==
    /\ Returned /\ ret.err = "seterr" /\ Len(SetCalls) = 1
    /\ stored.ClientID = NoKey /\ session.ClientID # NoKey

C3_WitnessOk ==
    /\ Returned /\ ret.err = "nil" /\ stored = session /\ stored.ClientID = WalletKey(2)

\* C4: when the attempts ended because the context was cancelled, Connect does not
\* return the aggregate "all connect attempts failed" error.
C4_CancelIsNotAggregate ==
    (Returned /\ N >= 1 /\ ctx = "cancelled" /\ \A w \in Wallets : wres[w] = "ctxerr")
        => ret.err # "allfailed"

\* ------------------------------ claims on GetConnector and the single-peer calls
\* C5: a single-peer call makes storage.Set exactly once if and only if the session
\* call succeeded, and after it; a failed session call returns its own error with
\* no Set; a failed Set after a successful session call returns the persistence
\* error, distinct from the session's, and no result.
C5_PersistIffSucceeded ==
    (op \in SingleOps) =>
        /\ Len(log) >= 1 /\ log[1].ev = "session"
        /\ Len(SetCalls) = (IF log[1].ok THEN 1 ELSE 0)
        /\ \A i \in 1..Len(log) : log[i].ev = "set" => i = 2
        /\ ~log[1].ok => ret = [resp |-> 0, err |-> "sesserr"]
        /\ (log[1].ok /\ ~SetCalls[1].ok) => ret = [resp |-> 0, err |-> "seterr"]
        /\ (log[1].ok /\ SetCalls[1].ok) => ret.err = "nil" /\ stored = session

C5_Witness ==
    /\ op = "SignData" /\ Len(log) = 2 /\ ~log[2].ok /\ ret.err = "seterr"
    /\ stored # session

C5_WitnessFailed ==
    /\ op = "Disconnect" /\ Len(log) = 1 /\ ret.err = "sesserr"
    /\ session.ClientID # NoKey

\* C6: acquisition never replaces a session that storage already holds, whatever
\* storage.Get returns.
C6_ExistingNeverReplaced ==
    [][(opc = "start" /\ stored # NoSession) => stored' = stored]_vars

\* C7: GetConnector returns a connector only when storage holds the connector's
\* session: the one storage.Get returned (no Set), or a fresh one (both counters 1,
\* no peer, no bridge URL) whose storage.Set succeeded; when creating or persisting
\* the fresh session fails there is an error and no connector.
FreshSession(s) ==
    /\ s.ID \in GenKeys /\ s.PrivateKey = PrivOf(s.ID)
    /\ s.LastEventID = 1 /\ s.LastRequestID = 1
    /\ s.ClientID = NoKey /\ s.BridgeURL = NoBridge

C7_ConnectorIsPersisted ==
    (op = "GetConnector") =>
        /\ connector <=> ret.err = "nil"
        /\ connector =>
              /\ stored = session
              /\ \/ getRes = "found" /\ SetCalls = <<>>
                 \/ /\ getRes # "found" /\ FreshSession(session)
                    /\ Len(SetCalls) = 1 /\ SetCalls[1].ok /\ SetCalls[1].sess = session
        /\ ~connector =>
              /\ ret.err \in {"newsession", "seterr"} /\ ret.resp = 0
              /\ ret.err = "seterr" <=> (Len(SetCalls) = 1 /\ ~SetCalls[1].ok)
              /\ ret.err = "newsession" <=> SetCalls = <<>>

C7_Witness ==
    /\ op = "GetConnector" /\ connector /\ getRes = "notfound"
    /\ FreshSession(session) /\ stored = session

C7_WitnessFailed ==
    /\ op = "GetConnector" /\ ~connector /\ ret.err = "seterr" /\ stored = NoSession

\* ------------------------------------------- claims on the bridge event stream
Dropped == {"json", "load", "mismatch", "open", "decode"}
HandlerRan == handled' = handled + 1

\* C8: the cursor LastEventID never decreases, whatever numeric ids the relay
\* delivers and whether or not the bodies parse or decrypt.
C8_CursorNeverDecreases ==
    [][session'.LastEventID >= session.LastEventID]_vars

\* C9: a Session bound to peer P publishes no message whose declared sender is not
\* P, and an event from another sender is rejected before box.EasyOpen is called.
C9_ForeignSenderDropped ==
    (session.ClientID # NoKey) =>
        /\ \A i \in 1..Len(published) : published[i].from = session.ClientID
        /\ hpc = "sending" => pending.from = session.ClientID
        /\ (last.verdict \notin {"none", "panic", "json", "load"}
              /\ last.from # session.ClientID)
             => last.verdict = "mismatch" /\ ~last.opened

C9_Witness ==
    /\ session.ClientID = 10 /\ last.from = 11 /\ last.verdict = "mismatch"
    /\ Len(published) = 2 /\ session.LastEventID = 8

\* C10: an event with a numeric id whose body does not parse, fails the peer check,
\* does not decrypt or does not decode is dropped: nothing is published for it and
\* the subscription goes on, ready for the next event.
C10_DroppedEventAbsorbed ==
    [][(HandlerRan /\ last'.verdict \in Dropped) =>
          /\ published' = published
          /\ hpc' = "idle" /\ pending' = NoMsg
          /\ sub' = "streaming" /\ subErr' = NotReturned]_vars

C10_Witness ==
    /\ handled = 3 /\ Len(published) = 1 /\ last.verdict = "nil" /\ hpc = "idle"
    /\ sub = "streaming"

\* C11: the messages are published in exactly the order in which their events were
\* handled, each deliverable event once; after the events 5, 7, 8 the cursor is 8
\* and the three payloads are published in that order.
InFlight == IF hpc = "sending" THEN <<pending>> ELSE <<>>

C11_PublishedInEventOrder ==
    /\ published \o InFlight = accepted
    /\ Len(accepted) <= handled
    /\ (handled = 3 /\ [i \in 1..Len(accepted) |-> accepted[i].id] = <<5, 7, 8>>)
          => session.LastEventID = 8

C11_Witness ==
    /\ [i \in 1..Len(published) |-> published[i].id] = <<5, 7, 8>>
    /\ session.LastEventID = 8 /\ hpc = "idle"

\* C12: connectToBridge returns nil exactly when the connection ended because the
\* context was cancelled or its deadline expired; a 503 of the relay is returned as
\* an error that errors.Is matches with ErrBridgeUnavailable; any other end, the
\* relay closing the stream without an error included, is a non-nil error.
C12_NilOnlyOnCancellation ==
    (sub = "returned") =>
        /\ subErr = <<>> <=> cause \in {"canceled", "deadline"}
        /\ cause = "unavailable" => ErrorsIs(subErr, "ErrBridgeUnavailable")
        /\ cause \in {"eof", "transport", "keypair", "urlparse", "unavailable"}
              => subErr # <<>> /\ subErr # NotReturned

C12_Witness ==
    /\ sub = "returned" /\ cause = "eof" /\ handled = 2
    /\ subErr = <<"tonconnect: failed to connect to bridge">>

C12_WitnessCancelled ==
    /\ sub = "returned" /\ cause = "canceled" /\ subErr = <<>> /\ ctx = "cancelled"

\* C13: sendMessage on a Session that lacks a key pair, a bound peer or a bridge
\* URL returns the "session not established" error, and that call seals nothing,
\* posts nothing and leaves every field of the Session as it was.
NotEstablished(s) ==
    s.ID = NoKey \/ s.PrivateKey = NoKey \/ s.ClientID = NoKey \/ s.BridgeURL = NoBridge

C13_NotEstablishedFailsFast ==
    [][(ret = NoRet /\ ret' # NoRet /\ NotEstablished(session))
          => /\ ret'.err = "tonconnect: session not established"
             /\ log' = log
             /\ session' = session]_vars

C13_Witness ==
    /\ ret.err = "tonconnect: session not established"
    /\ session.ClientID = 10 /\ session.ID = 1 /\ session.BridgeURL = NoBridge
    /\ log = <<>>

C13_WitnessSent ==
    /\ ret.err = "nil" /\ ~NotEstablished(session) /\ Len(log) = 2

\* C14: within one call of Connect, storage.Set is called at most once, only by the
\* receiving loop holding the response of an attempt that succeeded, and never
\* after Connect has returned; a worker never calls it, so what the winner
\* persisted is not written over by an attempt that lost or finished later.
C14_OnlyWinnerPersists ==
    [][/\ Len(SetCalls') <= 1
       /\ Returned => (log' = log /\ stored' = stored /\ ret' = ret)
       /\ log' # log => /\ mpc = "gotresp" /\ mpc' = "done"
                        /\ mresp \in Succeeded
                        /\ wpc' = wpc]_vars

C14_Witness ==
    /\ Returned /\ ret.err = "nil" /\ Len(SetCalls) = 1
    /\ \E w \in Succeeded \ {ret.resp} : wpc[w] = "done"
    /\ \E w \in Succeeded \ {ret.resp} : wpc[w] = "sendresp"

\* C15: for every handled event with a numeric id k, the cursor is k by the time
\* the body is parsed and decrypted, and it is still k after the handler, whether
\* the event was dropped or accepted; so a message waiting to be published, or
\* just published, finds the cursor at the id of its event.
C15_CursorSetBeforeDecrypt ==
    /\ last.verdict \notin {"none", "panic"} =>
          /\ ParseUint(last.id) = [ok |-> TRUE, val |-> last.val]
          /\ last.cursor = last.val
          /\ session.LastEventID = last.val
    /\ hpc = "sending" => pending.id = session.LastEventID
    /\ (last.verdict = "nil" /\ hpc = "idle") =>
          published[Len(published)].id = session.LastEventID

C15_Witness ==
    /\ last.verdict = "open" /\ last.id = <<"0", "7">> /\ session.LastEventID = 7
    /\ Len(published) = 1 /\ published[1].id = 5

C15_WitnessPublished ==
    /\ last.verdict = "nil" /\ hpc = "idle" /\ Len(published) = 2
    /\ session.LastEventID = 8

\* C16: once ctx is cancelled, connectToBridge can always go on to return, whatever
\* the consumer of msgs does: the handler is never blocked in its send to msgs with
\* a consumer that has stopped receiving. (A consumer that stopped never receives
\* again and conn.Connect returns only between two handler calls, so the state
\* excluded here is one from which connectToBridge never returns.)
C16_CancelledStreamReturns ==
    (ctx = "cancelled" /\ sub = "streaming") => (hpc = "idle" \/ consumer = "receiving")

\* C17: an event whose id strconv.ParseUint rejects makes the handler panic before
\* it touches the cursor: that handler call leaves the Session as it was, publishes
\* and sends nothing, and after it no event of the subscription is handled.
C17_BadIdIsFatal ==
    [][/\ (HandlerRan /\ ~ParseUint(last'.id).ok) =>
             /\ sub' = "panicked"
             /\ session' = session
             /\ published' = published /\ accepted' = accepted
             /\ hpc' = "idle" /\ pending' = NoMsg
       /\ sub = "panicked" =>
             /\ handled' = handled /\ session' = session
             /\ published' = published /\ sub' = sub]_vars

C17_Witness ==
    /\ sub = "panicked" /\ last.id = <<>> /\ handled = 3
    /\ session.LastEventID = 7 /\ Len(published) = 1 /\ ctx = "cancelled"

C17_WitnessNotANumber ==
    /\ sub = "panicked" /\ last.id = <<"x">> /\ handled = 1 /\ session.LastEventID = 1

\* C18: the subscription request carries last_event_id, spelling the current cursor
\* in decimal, whenever the cursor is above 0, and has no such parameter exactly
\* when the cursor is 0; a Session fresh from NewSession subscribes with
\* last_event_id=1.
C18_CursorInSubscription ==
    [][(sub = "calling" /\ sub' = "streaming") =>
          /\ req'.client_id = session.ID
          /\ req'.has_last <=> session.LastEventID > 0
          /\ req'.has_last =>
                ParseUint(req'.last_event_id) = [ok |-> TRUE, val |-> session.LastEventID]
          /\ ~req'.has_last => req'.last_event_id = <<>>
          /\ session = NewSession(session.ID) => req'.last_event_id = <<"1">>]_vars

C18_Witness ==
    /\ sub = "streaming" /\ handled = 0 /\ session = NewSession(1)
    /\ req = [client_id |-> 1, has_last |-> TRUE, last_event_id |-> <<"1">>]

C18_WitnessUnset ==
    /\ sub = "streaming" /\ handled = 0 /\ session.LastEventID = 0 /\ ~req.has_last

\* C19: in Connect no goroutine sends on a closed channel and no worker blocks on a
\* channel: the channels are closed only when all N workers are done, a failing
\* worker always finds room in errCh, a succeeding worker's send is a select with a
\* default; so once every session.Connect has returned, all workers and the closer
\* finish, whether or not Connect has returned by then.
AllConnectsReturned == \A w \in Wallets : wpc[w] \in {"senderr", "sendresp", "done"}
AllGoroutinesDone == (\A w \in Wallets : wpc[w] = "done") /\ cpc = "done"

C19_WorkersNeverStuck ==
    /\ [](/\ \A w \in Wallets : wpc[w] # "panic"
          /\ (respClosed \/ errClosed) => (wg = 0 /\ \A w \in Wallets : wpc[w] = "done")
          /\ \A w \in Wallets :
                /\ wpc[w] = "senderr" => (~errClosed /\ Len(errBuf) < ErrCap)
                /\ wpc[w] = "sendresp" => ~respClosed)
    /\ AllConnectsReturned ~> AllGoroutinesDone

C19_Witness ==
    /\ Returned /\ ret.err = "nil" /\ AllGoroutinesDone
    /\ Cardinality(Succeeded) >= 2 /\ Len(errBuf) = 1 /\ respClosed /\ errClosed

C19_WitnessLate ==
    /\ Returned /\ \E w \in Wallets : wpc[w] = "senderr"
    /\ \E w \in Wallets : wpc[w] = "call"

\* C20: neither the event handler nor sendMessage writes the Session's peer, bridge
\* URL or key pair: a handler call changes at most LastEventID, sendMessage changes
\* no field, so an unbound Session stays unbound after accepting a message from any
\* sender and a bound peer is never replaced by the sender of a message.
Binding(s) == <<s.ID, s.PrivateKey, s.ClientID, s.BridgeURL>>

C20_BindingNeverWritten ==
    [][/\ Binding(session') = Binding(session)
       /\ session'.LastRequestID = session.LastRequestID
       /\ session' # session => HandlerRan
       /\ ret' # ret => session' = session]_vars

C20_Witness ==
    /\ session.ClientID = NoKey
    /\ \E i, j \in 1..Len(published) : published[i].from = 10 /\ published[j].from = 11
    /\ ret.err = "tonconnect: session not established"

C20_WitnessBound ==
    /\ session.ClientID = 10 /\ last.from = 11 /\ last.verdict = "mismatch"
    /\ ret.err = "nil" /\ Len(published) = 1

====
